---- MODULE Spec2Model ----
(***************************************************************************)
(* Model of the powerplant production-plan service (app.py).               *)
(*                                                                         *)
(* merit_order_optimizer is entered in two ways: directly with costs,      *)
(* powers, load and names, as test_solver.py calls it, and from            *)
(* PowerplantSolver.post after process_input has normalised a request.     *)
(*                                                                         *)
(* Numbers.  The optimizer only adds, subtracts and compares, so it is     *)
(* modelled on integers.  On the request path load, pmin and pmax are in   *)
(* hundredths of a MW, efficiencies and the wind share are percentages (a  *)
(* fraction e is the integer 100*e), so reduced powers and the reduced     *)
(* load are in units of 1/10000 MW; costs are in tenths of a euro and the  *)
(* returned outputs p in tenths of a MW, the precision of round(p, 1).     *)
(* Binary floating-point representation error is not modelled; the         *)
(* explored values keep p away from decimal ties, where it would decide.   *)
(***************************************************************************)
EXTENDS Integers, Sequences, FiniteSets, TLC

VARIABLES
    pc,              \* position of the running call
    caller,          \* "test" (direct call) or "post" (the endpoint)
    input_data,      \* the posted payload (post only)
    costs,           \* argument costs of merit_order_optimizer
    powers,          \* argument powers
    load,            \* argument load
    names,           \* argument names
    costs_powers,    \* the sorted (cost, power, name) triples
    idx,             \* number of triples the for loop has consumed
    optimal_powers,  \* list of (amount, name) built by the loop
    temp_load,       \* running filled amount
    result,          \* return value of merit_order_optimizer
    output           \* body of the response (post only)

vars == <<pc, caller, input_data, costs, powers, load, names, costs_powers,
          idx, optimal_powers, temp_load, result, output>>

---------------------------------------------------------------------------
(* Bounds of the explored inputs *)

MaxUnits == 2
MaxCost == 1
MaxPower == 2
MaxLoad == 4
MaxRequestLoad == 2

---------------------------------------------------------------------------
(* Helpers *)

RECURSIVE SumSeq(_)
SumSeq(s) == IF s = <<>> THEN 0 ELSE Head(s) + SumSeq(Tail(s))

\* names used for the units, unique within one call
UnitNames == <<"name_1", "name_2", "name_3", "name_4", "name_5">>

NamesOf(n) == [i \in 1..n |-> UnitNames[i]]

\* Python None as the value of merit_order_optimizer, beside a list
NoneResult == [isNone |-> TRUE, list |-> <<>>]

ListResult(l) == [isNone |-> FALSE, list |-> l]

\* zip(costs, powers, names)
Zip(c, p, n) == [i \in 1..Len(c) |-> <<c[i], p[i], n[i]>>]

\* mutant of InsertByCost: equal costs are not kept in input order
RECURSIVE InsertByCost_Unstable(_, _)
InsertByCost_Unstable(t, s) ==
    IF s = <<>> THEN <<t>>
    ELSE IF t[1] <= Head(s)[1] THEN <<t>> \o s
    ELSE <<Head(s)>> \o InsertByCost_Unstable(t, Tail(s))

\* sorted(..., key=lambda x: x[0]): a stable sort on the cost alone
RECURSIVE InsertByCost(_, _)
InsertByCost(t, s) ==
    IF s = <<>> THEN <<t>>
    ELSE IF t[1] < Head(s)[1] THEN <<t>> \o s
    ELSE <<Head(s)>> \o InsertByCost(t, Tail(s))

\* mutant of SortByCost: the triples are left in input order
SortByCost_Unsorted(s) == s

RECURSIVE SortByCost(_)
SortByCost(s) ==
    IF s = <<>> THEN <<>>
    ELSE InsertByCost(s[Len(s)], SortByCost(SubSeq(s, 1, Len(s) - 1)))

\* mutant of TakesFull: the running amount is left out of the test
TakesFull_NoSum(temp, power, ld) == power < ld

\* the three branches of the loop body: the tests of lines 87 and 90
TakesFull(temp, power, ld) == temp + power < ld

TakesMarginal(temp, power, ld) == ~TakesFull(temp, power, ld) /\ temp < ld

\* mutant of LoopBody: the closing unit gets the excess, not the gap
LoopBody_Excess(st, t, ld) ==
    IF TakesFull(st.temp_load, t[2], ld)
    THEN [optimal_powers |-> Append(st.optimal_powers, <<t[2], t[3]>>),
          temp_load |-> st.temp_load + t[2]]
    ELSE IF TakesMarginal(st.temp_load, t[2], ld)
    THEN [optimal_powers |->
              Append(st.optimal_powers, <<st.temp_load + t[2] - ld, t[3]>>),
          temp_load |-> ld]
    ELSE [optimal_powers |-> Append(st.optimal_powers, <<0, t[3]>>),
          temp_load |-> st.temp_load]

\* one pass of the loop body over triple t, as a function of the loop state
LoopBody(st, t, ld) ==
    IF TakesFull(st.temp_load, t[2], ld)
    THEN [optimal_powers |-> Append(st.optimal_powers, <<t[2], t[3]>>),
          temp_load |-> st.temp_load + t[2]]
    ELSE IF TakesMarginal(st.temp_load, t[2], ld)
    THEN [optimal_powers |-> Append(st.optimal_powers, <<ld - st.temp_load, t[3]>>),
          temp_load |-> ld]
    ELSE [optimal_powers |-> Append(st.optimal_powers, <<0, t[3]>>),
          temp_load |-> st.temp_load]

RECURSIVE RunLoop(_, _, _)
RunLoop(st, ts, ld) ==
    IF ts = <<>> THEN st ELSE RunLoop(LoopBody(st, Head(ts), ld), Tail(ts), ld)

\* mutant of Returned: the list is returned even when the load is not met
Returned_Partial(st, ld) == ListResult(st.optimal_powers)

\* the value of the final test on temp_load
Returned(st, ld) ==
    IF st.temp_load < ld THEN NoneResult ELSE ListResult(st.optimal_powers)

\* merit_order_optimizer as a function of its arguments
MeritOrderOptimizer(c, p, ld, n) ==
    Returned(RunLoop([optimal_powers |-> <<>>, temp_load |-> 0],
                     SortByCost(Zip(c, p, n)), ld), ld)

---------------------------------------------------------------------------
(* process_input and the re-expansion of post *)

Thermal == {"gasfired", "turbojet"}

\* the factor of a unit, in percent: its efficiency, or the wind share
Efficiency(p, fuels) ==
    IF p.type \in Thermal THEN p.efficiency ELSE fuels.wind

\* lines 31-36
Powers(d) ==
    [i \in 1..Len(d.powerplants) |->
        Efficiency(d.powerplants[i], d.fuels)
            * (d.powerplants[i].pmax - d.powerplants[i].pmin)]

\* lines 40-47
ReducedLoad(d) ==
    100 * d.load
        - SumSeq([i \in 1..Len(d.powerplants) |->
                    Efficiency(d.powerplants[i], d.fuels) * d.powerplants[i].pmin])

\* line 48
PlantNames(d) == [i \in 1..Len(d.powerplants) |-> d.powerplants[i].name]

\* lines 56 and 59 divide by the efficiency of a thermal unit
CostRaises(d) ==
    \E i \in 1..Len(d.powerplants) :
        d.powerplants[i].type \in Thermal /\ d.powerplants[i].efficiency = 0

\* lines 54-62, in tenths (the explored prices divide exactly)
Cost(p, fuels) ==
    IF p.type = "gasfired"
    THEN (1000 * fuels.gas) \div p.efficiency + 3 * fuels.co2
    ELSE IF p.type = "turbojet"
    THEN (1000 * fuels.kerosine) \div p.efficiency
    ELSE 0

Costs(d) == [i \in 1..Len(d.powerplants) |-> Cost(d.powerplants[i], d.fuels)]

\* num / den rounded to an integer, ties to even, as round() does
RoundHalfEven(num, den) ==
    LET q == num \div den
        r == num % den
    IN  IF 2 * r < den THEN q
        ELSE IF 2 * r > den THEN q + 1
        ELSE IF q % 2 = 0 THEN q ELSE q + 1

\* line 116-118: the first unit of the request with that name
Lookup(plants, name) ==
    plants[CHOOSE i \in 1..Len(plants) :
              /\ plants[i].name = name
              /\ \A j \in 1..(i - 1) : plants[j].name # name]

\* lines 119-132: p of one (amount, name) pair, in tenths of a MW.  The
\* division is skipped when the factor is zero; the sum with pmin is rounded:
\* amount / 10000 / (efficiency / 100) + pmin / 100, times 10
Expand(d, pair) ==
    LET powerplant == Lookup(d.powerplants, pair[2])
        efficiency == Efficiency(powerplant, d.fuels)
        p == IF efficiency = 0
             THEN RoundHalfEven(pair[1] + 100 * powerplant.pmin, 1000)
             ELSE RoundHalfEven(pair[1] + efficiency * powerplant.pmin,
                                10 * efficiency)
    IN  [name |-> pair[2], p |-> p]

\* line 114: None and the empty list are both false
Truthy(r) == ~r.isNone /\ r.list # <<>>

Message == "The desired load cannot be archived with given set of powerplants"

---------------------------------------------------------------------------
(* Inputs *)

CostValues == 0..MaxCost
PowerValues == -1..MaxPower
LoadValues == -1..MaxLoad

\* the arguments of test_solver.py
TestCosts == <<6, 8, 5, 2>>
TestPowers == <<3, 4, 7, 9>>
TestLoads == {18, 100}

\* the calls of test_solver.py, and every call within the bounds
TestCalls ==
    {[costs |-> TestCosts, powers |-> TestPowers, load |-> l,
      names |-> NamesOf(4)] : l \in TestLoads}

BoundedCalls ==
    UNION {[costs : [1..n -> CostValues], powers : [1..n -> PowerValues],
            load : LoadValues, names : {NamesOf(n)}] : n \in 0..MaxUnits}

SolverCalls == TestCalls \cup BoundedCalls

\* the requests
EfficiencyValues == {0, 50, 100}
Ranges == {<<0, 200>>, <<100, 100>>, <<104, 200>>, <<200, 100>>}
WindValues == {0, 50, 100}
Co2Values == {100}

\* a wind turbine's efficiency is never read
UnitSpecs ==
    [type : Thermal, efficiency : EfficiencyValues, range : Ranges]
        \cup [type : {"windturbine"}, efficiency : {100}, range : Ranges]

Plants(u) ==
    [i \in 1..Len(u) |->
        [name |-> UnitNames[i], type |-> u[i].type,
         efficiency |-> u[i].efficiency,
         pmin |-> u[i].range[1], pmax |-> u[i].range[2]]]

FuelValues ==
    [gas : {20}, kerosine : {30}, co2 : Co2Values, wind : WindValues]

Requests ==
    UNION {[load : {100 * l : l \in 0..MaxRequestLoad}, fuels : FuelValues,
            powerplants : {Plants(u) : u \in [1..n -> UnitSpecs]}]
           : n \in 0..MaxUnits}

---------------------------------------------------------------------------
(* State machine *)

Init ==
    /\ pc = "start"
    /\ caller = "none"
    /\ input_data = <<>>
    /\ costs = <<>>
    /\ powers = <<>>
    /\ load = 0
    /\ names = <<>>
    /\ costs_powers = <<>>
    /\ idx = 0
    /\ optimal_powers = <<>>
    /\ temp_load = 0
    /\ result = NoneResult
    /\ output = <<>>

\* test_solver.py: merit_order_optimizer(costs, powers, load, names)
TestCall ==
    /\ pc = "start"
    /\ \E a \in SolverCalls :
        /\ costs' = a.costs
        /\ powers' = a.powers
        /\ load' = a.load
        /\ names' = a.names
    /\ caller' = "test"
    /\ pc' = "call"
    /\ UNCHANGED <<input_data, costs_powers, idx, optimal_powers, temp_load,
                   result, output>>

\* lines 83-85: sort the triples, start with an empty list and temp_load 0
Enter ==
    /\ pc = "call"
    /\ costs_powers' = SortByCost(Zip(costs, powers, names))
    /\ optimal_powers' = <<>>
    /\ temp_load' = 0
    /\ idx' = 0
    /\ pc' = "loop"
    /\ UNCHANGED <<caller, input_data, costs, powers, load, names, result, output>>

LoopState == [optimal_powers |-> optimal_powers, temp_load |-> temp_load]

Step ==
    /\ optimal_powers' = LoopBody(LoopState, costs_powers[idx + 1], load).optimal_powers
    /\ temp_load' = LoopBody(LoopState, costs_powers[idx + 1], load).temp_load
    /\ idx' = idx + 1
    /\ UNCHANGED <<pc, caller, input_data, costs, powers, load, names,
                   costs_powers, result, output>>

\* lines 87-89: the unit is taken at its full power
IterFull ==
    /\ pc = "loop"
    /\ idx < Len(costs_powers)
    /\ TakesFull(temp_load, costs_powers[idx + 1][2], load)
    /\ Step

\* lines 90-93: the unit closes the gap
IterMarginal ==
    /\ pc = "loop"
    /\ idx < Len(costs_powers)
    /\ TakesMarginal(temp_load, costs_powers[idx + 1][2], load)
    /\ Step

\* lines 94-95: the load is already met
IterZero ==
    /\ pc = "loop"
    /\ idx < Len(costs_powers)
    /\ ~TakesFull(temp_load, costs_powers[idx + 1][2], load)
    /\ ~TakesMarginal(temp_load, costs_powers[idx + 1][2], load)
    /\ Step

\* lines 96-97
ReturnNone ==
    /\ pc = "loop"
    /\ idx = Len(costs_powers)
    /\ Returned(LoopState, load).isNone
    /\ result' = Returned(LoopState, load)
    /\ pc' = "returned"
    /\ UNCHANGED <<caller, input_data, costs, powers, load, names,
                   costs_powers, idx, optimal_powers, temp_load, output>>

\* line 98
ReturnList ==
    /\ pc = "loop"
    /\ idx = Len(costs_powers)
    /\ ~Returned(LoopState, load).isNone
    /\ result' = Returned(LoopState, load)
    /\ pc' = "returned"
    /\ UNCHANGED <<caller, input_data, costs, powers, load, names,
                   costs_powers, idx, optimal_powers, temp_load, output>>

\* post, line 106: the payload arrives
Post ==
    /\ pc = "start"
    /\ \E d \in Requests : input_data' = d
    /\ caller' = "post"
    /\ pc' = "process_input"
    /\ UNCHANGED <<costs, powers, load, names, costs_powers, idx,
                   optimal_powers, temp_load, result, output>>

\* process_input raises ZeroDivisionError; post does not catch it
ProcessInputRaises ==
    /\ pc = "process_input"
    /\ CostRaises(input_data)
    /\ pc' = "error"
    /\ UNCHANGED <<caller, input_data, costs, powers, load, names, costs_powers,
                   idx, optimal_powers, temp_load, result, output>>

\* lines 108-109: process_input returns and merit_order_optimizer is called
ProcessInput ==
    /\ pc = "process_input"
    /\ ~CostRaises(input_data)
    /\ powers' = Powers(input_data)
    /\ costs' = Costs(input_data)
    /\ load' = ReducedLoad(input_data)
    /\ names' = PlantNames(input_data)
    /\ pc' = "call"
    /\ UNCHANGED <<caller, input_data, costs_powers, idx, optimal_powers,
                   temp_load, result, output>>

\* lines 113-132: the plan, in the order of optimal_powers
RespondPlan ==
    /\ pc = "returned"
    /\ caller = "post"
    /\ Truthy(result)
    /\ output' = [i \in 1..Len(result.list) |-> Expand(input_data, result.list[i])]
    /\ pc' = "responded"
    /\ UNCHANGED <<caller, input_data, costs, powers, load, names, costs_powers,
                   idx, optimal_powers, temp_load, result>>

\* lines 133-138: the message
RespondMessage ==
    /\ pc = "returned"
    /\ caller = "post"
    /\ ~Truthy(result)
    /\ output' = <<[message |-> Message]>>
    /\ pc' = "responded"
    /\ UNCHANGED <<caller, input_data, costs, powers, load, names, costs_powers,
                   idx, optimal_powers, temp_load, result>>

Next ==
    \/ TestCall
    \/ Post
    \/ ProcessInputRaises
    \/ ProcessInput
    \/ Enter
    \/ IterFull
    \/ IterMarginal
    \/ IterZero
    \/ ReturnNone
    \/ ReturnList
    \/ RespondPlan
    \/ RespondMessage

Spec == Init /\ [][Next]_vars
---------------------------------------------------------------------------
(* Vocabulary of the properties *)

Amounts(l) == [i \in 1..Len(l) |-> l[i][1]]

ListNames(l) == [i \in 1..Len(l) |-> l[i][2]]

\* position of a name among the arguments of the call
IndexOf(name) == CHOOSE i \in 1..Len(names) : names[i] = name

NonNegativePowers == \A i \in 1..Len(powers) : powers[i] >= 0

ReachableLoad == 0 <= load /\ load <= SumSeq(powers)

ReturnedList == pc = "returned" /\ ~result.isNone

SeqMax(s) == IF s = <<>> THEN 0 ELSE CHOOSE m \in {s[i] : i \in 1..Len(s)} :
                                        \A i \in 1..Len(s) : s[i] <= m

\* every other way of meeting the load within the capacities
Assignments ==
    {a \in [1..Len(powers) -> 0..SeqMax(powers)] :
        /\ \A i \in 1..Len(powers) : a[i] <= powers[i]
        /\ SumSeq(a) = load}

TotalCost(l) == SumSeq([i \in 1..Len(l) |-> costs[IndexOf(l[i][2])] * l[i][1]])

AssignmentCost(a) == SumSeq([i \in 1..Len(a) |-> costs[i] * a[i]])

\* ns lists every argument name once, by ascending cost, ties in input order
InMeritOrder(ns) ==
    /\ Len(ns) = Len(names)
    /\ \A i \in 1..Len(names) : \E j \in 1..Len(ns) : ns[j] = names[i]
    /\ \A i, j \in 1..Len(ns) :
        i < j =>
            \/ costs[IndexOf(ns[i])] < costs[IndexOf(ns[j])]
            \/ /\ costs[IndexOf(ns[i])] = costs[IndexOf(ns[j])]
               /\ IndexOf(ns[i]) < IndexOf(ns[j])

IsPlan == pc = "responded" /\ "name" \in DOMAIN output[1]

IsMessage ==
    /\ pc = "responded"
    /\ Len(output) = 1
    /\ DOMAIN output[1] = {"message"}
    /\ output[1].message = Message

ValidUnit(p, fuels) ==
    /\ p.pmin <= p.pmax
    /\ p.type \in Thermal => p.efficiency > 0

ValidRequest ==
    /\ caller = "post"
    /\ input_data.fuels.wind \in 0..100
    /\ \A i \in 1..Len(input_data.powerplants) :
        ValidUnit(input_data.powerplants[i], input_data.fuels)

---------------------------------------------------------------------------
(* Properties *)

\* C1: whenever merit_order_optimizer returns a list, for any load (positive,
\* zero or negative), the amounts of the list sum exactly to the load (stated
\* for at least one unit and non-negative powers).
C1_SumEqualsLoad ==
    (ReturnedList /\ names # <<>> /\ NonNegativePowers)
        => SumSeq(Amounts(result.list)) = load

\* C2: for non-negative powers and a reachable load, no assignment within
\* the capacities that sums to the load costs less than the returned list.
C2_CostMinimal ==
    (ReturnedList /\ caller = "test" /\ NonNegativePowers /\ ReachableLoad)
        => \A a \in Assignments : TotalCost(result.list) <= AssignmentCost(a)

\* a costlier unit listed first, and a unit left partly used
C2_Witness ==
    /\ ReturnedList /\ caller = "test" /\ NonNegativePowers /\ ReachableLoad
    /\ Len(costs) >= 2 /\ costs[1] > costs[2]
    /\ \E i \in 1..Len(result.list) :
        /\ 0 < result.list[i][1]
        /\ result.list[i][1] < powers[IndexOf(result.list[i][2])]
    /\ Cardinality(Assignments) > 1

\* the unit of the request that an object of the plan names
PlantOf(o) == Lookup(input_data.powerplants, o.name)

PlanTotal == SumSeq([i \in 1..Len(output) |-> output[i].p])

\* C3: for every request answered with a plan, the outputs p of the plan sum
\* to the requested load to within 0.1 MW (stated for the valid requests
\* with full wind in which every pmin is 0).
C3_PlanMeetsLoad ==
    (/\ IsPlan /\ ValidRequest
     /\ input_data.fuels.wind = 100
     /\ \A i \in 1..Len(input_data.powerplants) :
            input_data.powerplants[i].pmin = 0)
        => /\ 10 * PlanTotal - input_data.load <= 10
           /\ input_data.load - 10 * PlanTotal <= 10

\* C4: for a valid request (pmin <= pmax, thermal efficiency > 0, wind share
\* in [0,1]) every unit of a returned plan has pmin <= p <= pmax (stated for
\* the requests whose reduced load is not negative).
C4_WithinRange ==
    (IsPlan /\ ValidRequest /\ load >= 0)
        => \A i \in 1..Len(output) :
            /\ PlantOf(output[i]).pmin <= 10 * output[i].p
            /\ 10 * output[i].p <= PlantOf(output[i]).pmax

\* C5 as stated: a plan lists the units in the order of the request.
C5_RequestOrder ==
    IsPlan => [i \in 1..Len(output) |-> output[i].name] = PlantNames(input_data)

\* C5 as amended: a plan holds one object per unit of the request, listed by
\* ascending cost, units of equal cost in the order of the request.
C5_MeritOrder ==
    IsPlan => InMeritOrder([i \in 1..Len(output) |-> output[i].name])

\* a plan whose order differs from the request's
C5_Witness ==
    /\ IsPlan
    /\ Len(output) = Len(input_data.powerplants)
    /\ [i \in 1..Len(output) |-> output[i].name] # PlantNames(input_data)

C7_InvalidRejected ==
    (caller = "post" /\ ~ValidRequest) => pc \in {"process_input", "error"}

\* C8: in a returned list a unit of positive power gets an amount in
\* [0, power], a unit of zero or negative power gets 0.
C8_AmountsWithinPower ==
    ReturnedList
        => \A i \in 1..Len(result.list) :
            LET power == powers[IndexOf(result.list[i][2])]
                amount == result.list[i][1]
            IN  /\ power > 0 => (0 <= amount /\ amount <= power)
                /\ power <= 0 => amount = 0

\* the amounts of a list follow the fill pattern: the first k units at full
\* power, the next one the remainder, the others 0
FillPattern(l) ==
    \E k \in 0..Len(l) :
        LET power(i) == powers[IndexOf(l[i][2])]
            filled == SumSeq([i \in 1..k |-> power(i)])
        IN  /\ \A i \in 1..k : l[i][1] = power(i)
            /\ k < Len(l) =>
                /\ l[k + 1][1] = load - filled
                /\ 0 <= l[k + 1][1]
                /\ l[k + 1][1] <= power(k + 1)
                /\ \A i \in 1..Len(l) :
                    /\ costs[IndexOf(l[i][2])] < costs[IndexOf(l[k + 1][2])]
                        => l[i][1] = power(i)
                    /\ costs[IndexOf(l[i][2])] > costs[IndexOf(l[k + 1][2])]
                        => l[i][1] = 0
            /\ \A i \in (k + 2)..Len(l) : l[i][1] = 0

\* the list test_solver.py expects for load 18
TestExpected ==
    <<<<9, "name_4">>, <<7, "name_3">>, <<2, "name_1">>, <<0, "name_2">>>>

\* C9: for non-negative powers and a reachable load the returned list has one
\* entry per unit, by ascending cost with ties in input order; a leading run
\* of units gets its full power, at most one unit the remainder, the rest 0.
C9_MeritOrderFill ==
    (ReturnedList /\ NonNegativePowers /\ ReachableLoad)
        => /\ InMeritOrder(ListNames(result.list))
           /\ FillPattern(result.list)
           /\ (costs = TestCosts /\ powers = TestPowers /\ load = 18)
                => result.list = TestExpected

\* the call of test_solver.py has returned
C9_Witness ==
    /\ ReturnedList
    /\ costs = TestCosts /\ powers = TestPowers /\ load = 18
    /\ result.list = TestExpected

\* the feasible loads above the load of the call
HigherLoads == load..SumSeq(powers)

\* C10: for fixed costs and non-negative powers, and a feasible load L' >= L,
\* no unit gets less under L' than under L, a unit at full power stays at
\* full power, and no amount is negative.
C10_Monotone ==
    (ReturnedList /\ caller = "test" /\ NonNegativePowers)
        => \A l \in HigherLoads :
            LET higher == MeritOrderOptimizer(costs, powers, l, names)
            IN  /\ ~higher.isNone
                /\ ListNames(higher.list) = ListNames(result.list)
                /\ \A i \in 1..Len(result.list) :
                    /\ result.list[i][1] >= 0
                    /\ higher.list[i][1] >= result.list[i][1]
                    /\ result.list[i][1] = powers[IndexOf(result.list[i][2])]
                        => higher.list[i][1] = result.list[i][1]

\* a higher feasible load raises the amount of a unit that was partly used
C10_Witness ==
    /\ ReturnedList /\ caller = "test" /\ NonNegativePowers
    /\ \E l \in HigherLoads : \E i \in 1..Len(result.list) :
        /\ 0 < result.list[i][1]
        /\ MeritOrderOptimizer(costs, powers, l, names).list[i][1]
              > result.list[i][1]
        /\ \E j \in 1..Len(result.list) :
              /\ j # i
              /\ result.list[j][1] = powers[IndexOf(result.list[j][2])]
              /\ result.list[j][1] > 0

====
